---- MODULE Spec2Model ----
(***************************************************************************)
(* Items API of fastify-starter: the in-memory item collection             *)
(* (data/items.js), the service functions over it (itemsServices.js), the  *)
(* route schemas (itemsSchema.js), and the five routes with their          *)
(* controllers (itemsHandler.js, itemsController.js).                      *)
(*                                                                         *)
(* One action is one HTTP request handled to completion: body validation   *)
(* against the route's schema, the controller, the service call it makes   *)
(* and the reply.  The controllers contain no await, so a request runs     *)
(* without interleaving.                                                   *)
(***************************************************************************)
EXTENDS Integers, Sequences, FiniteSets, TLC

(***************************************************************************)
(* Bounds                                                                  *)
(***************************************************************************)
\* number of ids the uuid generator can hand out in one behaviour
MaxUuids == 2
\* requests that can be in flight at once
MaxInflight == 2

(***************************************************************************)
(* JavaScript values, tagged by their type.  An item is a record           *)
(* [id, name] of two values: id is always a string (a seed id or a uuid),  *)
(* name is whatever value add/update was given.                            *)
(***************************************************************************)
Undefined == [type |-> "undefined"]
Null == [type |-> "null"]
Str(s) == [type |-> "string", val |-> s]

\* !v for the values a service function can return (objects are truthy)
Falsy(v) == v = Undefined \/ v = Null

\* a parsed JSON object body: a function from its keys to their values
Obj(props) == [type |-> "object", props |-> props]
EmptyObj == Obj([k \in {} |-> Undefined])
NameObj(v) == Obj([k \in {"name"} |-> v])

\* const { name } = req.body, for an object body
GetProp(o, k) == IF k \in DOMAIN o.props THEN o.props[k] ELSE Undefined

(***************************************************************************)
(* Inputs                                                                  *)
(***************************************************************************)
SeedIds == {Str("1"), Str("2"), Str("3")}
Uuid(i) == Str("uuid-" \o ToString(i))
UUIDs == {Uuid(i) : i \in 1..MaxUuids}
\* an id no item ever has
MissingId == Str("9")
PathIds == SeedIds \cup UUIDs \cup {MissingId}

\* req.body: absent, {} or {name: "Jerome"}
Bodies == {Undefined, EmptyObj, NameObj(Str("Jerome"))}

VARIABLES
    items,      \* data/items.js: the shared array of items
    minted,     \* ids uuidv4() has returned so far
    req,        \* the request handled last
    call,       \* the service call made while handling it
    sent,       \* the replies sent while handling it, in order
    inflight,   \* the requests received and not yet handled, and the handled ones
    boot        \* server.js: how far the start of the process has come

vars == <<items, minted, req, call, sent, inflight, boot>>

(***************************************************************************)
(* data/items.js                                                           *)
(***************************************************************************)
SeedItems ==
    << [id |-> Str("1"), name |-> Str("Item One")],
       [id |-> Str("2"), name |-> Str("Item Two")],
       [id |-> Str("3"), name |-> Str("Item Three")] >>

(***************************************************************************)
(* itemsServices.js.  Each function is an operator from the array (and its *)
(* arguments) to the array afterwards and the value returned.              *)
(***************************************************************************)
\* Array.prototype.findIndex with (item) => item.id === id; 1-based, -1 if none
findIndex(arr, id) ==
    IF \E i \in 1..Len(arr) : arr[i].id = id
    THEN CHOOSE i \in 1..Len(arr) :
            /\ arr[i].id = id
            /\ \A j \in 1..(i - 1) : arr[j].id # id
    ELSE -1

\* arr.splice(index, 1): the array without the element at index
splice(arr, index) ==
    [i \in 1..(Len(arr) - 1) |-> IF i < index THEN arr[i] ELSE arr[i + 1]]

getAll(arr) == [items |-> arr, ret |-> arr]

\* findId with an assignment for the comparison, (item) => item.id = id:
\* the first item gets the id and is the one found
findId_assign(arr, id) ==
    IF Len(arr) = 0
    THEN [items |-> arr, ret |-> Undefined]
    ELSE LET first == [arr[1] EXCEPT !.id = id]
         IN  [items |-> [arr EXCEPT ![1] = first], ret |-> first]

findId(arr, id) ==
    LET index == findIndex(arr, id)
    IN  [items |-> arr,
         ret |-> IF index = -1 THEN Undefined ELSE arr[index]]

\* add with the id taken from the array's length instead of uuidv4()
add_lengthId(arr, uuid, name) ==
    LET item == [id |-> Str(ToString(Len(arr) + 1)), name |-> name]
    IN  [items |-> Append(arr, item), ret |-> item]

\* add without the push
add_noPush(arr, uuid, name) ==
    LET item == [id |-> uuid, name |-> name]
    IN  [items |-> arr, ret |-> item]

\* add with unshift in place of push
add_unshift(arr, uuid, name) ==
    LET item == [id |-> uuid, name |-> name]
    IN  [items |-> <<item>> \o arr, ret |-> item]

\* uuid is the value uuidv4() returned for this call
add(arr, uuid, name) ==
    LET item == [id |-> uuid, name |-> name]
    IN  [items |-> Append(arr, item), ret |-> item]

\* remove that drops the last element instead of the one found
remove_pop(arr, id) ==
    LET index == findIndex(arr, id)
    IN  IF index = -1
        THEN [items |-> arr, ret |-> Null]
        ELSE [items |-> SubSeq(arr, 1, Len(arr) - 1), ret |-> arr[index]]

\* remove without the index === -1 check: splice(-1, 1) takes the last element
remove_noCheck(arr, id) ==
    LET index == findIndex(arr, id)
    IN  IF index = -1
        THEN IF Len(arr) = 0
             THEN [items |-> arr, ret |-> Undefined]
             ELSE [items |-> SubSeq(arr, 1, Len(arr) - 1), ret |-> arr[Len(arr)]]
        ELSE [items |-> splice(arr, index), ret |-> arr[index]]

remove(arr, id) ==
    LET index == findIndex(arr, id)
    IN  IF index = -1
        THEN [items |-> arr, ret |-> Null]
        ELSE [items |-> splice(arr, index), ret |-> arr[index]]

\* update that takes the item out and pushes the new version
update_reinsert(arr, id, name) ==
    LET index == findIndex(arr, id)
    IN  IF index = -1
        THEN [items |-> arr, ret |-> Null]
        ELSE LET updated == [arr[index] EXCEPT !.name = name]
             IN  [items |-> Append(splice(arr, index), updated), ret |-> updated]

\* update that creates the item when the id is not found
update_upsert(arr, id, name) ==
    LET index == findIndex(arr, id)
    IN  IF index = -1
        THEN LET created == [id |-> id, name |-> name]
             IN  [items |-> Append(arr, created), ret |-> created]
        ELSE LET updated == [arr[index] EXCEPT !.name = name]
             IN  [items |-> [arr EXCEPT ![index] = updated], ret |-> updated]

\* update that changes a copy of the item and returns the copy
update_copy(arr, id, name) ==
    LET index == findIndex(arr, id)
    IN  IF index = -1
        THEN [items |-> arr, ret |-> Null]
        ELSE [items |-> arr, ret |-> [arr[index] EXCEPT !.name = name]]

update(arr, id, name) ==
    LET index == findIndex(arr, id)
    IN  IF index = -1
        THEN [items |-> arr, ret |-> Null]
        ELSE LET updated == [arr[index] EXCEPT !.name = name]
             IN  [items |-> [arr EXCEPT ![index] = updated], ret |-> updated]

(***************************************************************************)
(* itemsSchema.js                                                          *)
(***************************************************************************)
Item ==
    [type |-> "object",
     properties |-> [id |-> "string", name |-> "string"],
     required |-> {}]

getItemsSchema == [response |-> (200 :> [type |-> "array", items |-> Item])]

getItemSchema == [response |-> (200 :> Item)]

\* addItemSchema without required: ["name"]
addItemSchema_noRequired ==
    [body |-> [type |-> "object",
               required |-> {},
               properties |-> [name |-> "string"]],
     response |-> (201 :> Item)]

addItemSchema ==
    [body |-> [type |-> "object",
               required |-> {"name"},
               properties |-> [name |-> "string"]],
     response |-> (201 :> Item)]

deleteItemSchema ==
    [response |-> (200 :> [type |-> "object",
                           properties |-> [message |-> "string"],
                           required |-> {}])]

updateItemSchema == [response |-> (200 :> Item)]

(***************************************************************************)
(* What Fastify does with a route's schema: the body is validated (with    *)
(* type coercion) before the handler runs, the payload of a reply is       *)
(* serialized by the response schema of its status code.                   *)
(***************************************************************************)
\* a value can be coerced to the schema type "string"
Coercible(v) == v.type \in {"string", "number"}
asString(v) == Str(v.val)

\* a body schema whose string properties have minLength: 1
validBody_nonEmpty(schema, body) ==
    \/ "body" \notin DOMAIN schema
    \/ /\ body.type = "object"
       /\ schema.body.required \subseteq DOMAIN body.props
       /\ \A k \in DOMAIN body.props \cap DOMAIN schema.body.properties :
              Coercible(body.props[k]) /\ body.props[k].val # ""

\* the body passes the route's body schema (a route without one accepts all)
validBody(schema, body) ==
    \/ "body" \notin DOMAIN schema
    \/ /\ body.type = "object"
       /\ schema.body.required \subseteq DOMAIN body.props
       /\ \A k \in DOMAIN body.props \cap DOMAIN schema.body.properties :
              Coercible(body.props[k])

\* the body the handler sees: declared properties coerced to their type
coerceBody(schema, body) ==
    IF "body" \notin DOMAIN schema
    THEN body
    ELSE Obj([k \in DOMAIN body.props |->
                 IF k \in DOMAIN schema.body.properties
                 THEN asString(body.props[k])
                 ELSE body.props[k]])

\* an object written by an object schema: its declared, defined properties
serializeObject(schema, obj) ==
    [k \in {p \in DOMAIN schema.properties \cap DOMAIN obj : obj[p] # Undefined}
        |-> asString(obj[k])]

\* a required property of the schema is missing from the object
missingRequired(schema, obj) ==
    \E p \in schema.required : p \notin DOMAIN obj \/ obj[p] = Undefined

serializeFails(schema, payload) ==
    IF schema.type = "array"
    THEN \E i \in 1..Len(payload) : missingRequired(schema.items, payload[i])
    ELSE missingRequired(schema, payload)

serialize(schema, payload) ==
    IF schema.type = "array"
    THEN [i \in 1..Len(payload) |-> serializeObject(schema.items, payload[i])]
    ELSE serializeObject(schema, payload)

BadRequest == [code |-> 400, body |-> [statusCode |-> 400, error |-> "Bad Request"]]
ServerError ==
    [code |-> 500, body |-> [statusCode |-> 500, error |-> "Internal Server Error"]]

\* reply.code(code).send(payload) on a route with this schema
send(schema, code, payload) ==
    IF code \in DOMAIN schema.response
    THEN IF serializeFails(schema.response[code], payload)
         THEN ServerError
         ELSE [code |-> code, body |-> serialize(schema.response[code], payload)]
    ELSE [code |-> code, body |-> payload]

(***************************************************************************)
(* itemsController.js.  A controller is an operator from the route's       *)
(* schema, the array and the request (and, for addItem, the value uuidv4() *)
(* returns) to the array afterwards, the service call it made and the      *)
(* replies it sent.                                                        *)
(***************************************************************************)
NoCall == [fn |-> "none"]
Called(fn, args, res) == [fn |-> fn, args |-> args, ret |-> res.ret]

\* const { name } = req.body throws a TypeError when req.body is undefined;
\* Fastify answers a throwing handler with a 500
threw(arr) == [items |-> arr, call |-> NoCall, sent |-> <<ServerError>>]

\* getItems that uses the imported array itself: reply.send(items.reverse())
getItems_reverse(schema, arr, r) ==
    LET reversed == [i \in 1..Len(arr) |-> arr[Len(arr) + 1 - i]]
    IN  [items |-> reversed,
         call |-> NoCall,
         sent |-> <<send(schema, 200, reversed)>>]

\* getItems that answers 404 for an empty list
getItems_404empty(schema, arr, r) ==
    LET res == getAll(arr)
    IN  [items |-> res.items,
         call |-> Called("getAll", <<>>, res),
         sent |-> IF Len(res.ret) = 0
                  THEN <<send(schema, 404, [message |-> Str("No items found")])>>
                  ELSE <<send(schema, 200, res.ret)>>]

getItems(schema, arr, r) ==
    LET res == getAll(arr)
    IN  [items |-> res.items,
         call |-> Called("getAll", <<>>, res),
         sent |-> <<send(schema, 200, res.ret)>>]

getItem(schema, arr, r) ==
    LET id == r.params.id
        res == findId(arr, id)
        item == res.ret
    IN  [items |-> res.items,
         call |-> Called("findId", [id |-> id], res),
         sent |-> IF Falsy(item)
                  THEN <<send(schema, 404,
                              [message |-> Str("Item " \o id.val \o " not found")])>>
                  ELSE <<send(schema, 200, item)>>]

\* addItem without .code(201)
addItem_code200(schema, arr, r, uuid) ==
    IF r.body = Undefined
    THEN threw(arr)
    ELSE LET name == GetProp(r.body, "name")
             res == add(arr, uuid, name)
             item == res.ret
         IN  [items |-> res.items,
              call |-> Called("add", [name |-> name], res),
              sent |-> <<send(schema, 200, item)>>]

addItem(schema, arr, r, uuid) ==
    IF r.body = Undefined
    THEN threw(arr)
    ELSE LET name == GetProp(r.body, "name")
             res == add(arr, uuid, name)
             item == res.ret
         IN  [items |-> res.items,
              call |-> Called("add", [name |-> name], res),
              sent |-> <<send(schema, 201, item)>>]

\* deleteItem whose if (!deleted) branch sends without return
deleteItem_noReturn(schema, arr, r) ==
    LET id == r.params.id
        res == remove(arr, id)
        deleted == res.ret
        removed == send(schema, 200,
                        [message |-> Str("Item " \o id.val \o " has been removed")])
    IN  [items |-> res.items,
         call |-> Called("remove", [id |-> id], res),
         sent |-> IF Falsy(deleted)
                  THEN <<send(schema, 404,
                              [message |-> Str("Item " \o id.val \o " not found")]),
                         removed>>
                  ELSE <<removed>>]

\* deleteItem without the if (!deleted) branch
deleteItem_noCheck(schema, arr, r) ==
    LET id == r.params.id
        res == remove(arr, id)
    IN  [items |-> res.items,
         call |-> Called("remove", [id |-> id], res),
         sent |-> <<send(schema, 200,
                         [message |-> Str("Item " \o id.val \o " has been removed")])>>]

deleteItem(schema, arr, r) ==
    LET id == r.params.id
        res == remove(arr, id)
        deleted == res.ret
    IN  [items |-> res.items,
         call |-> Called("remove", [id |-> id], res),
         sent |-> IF Falsy(deleted)
                  THEN <<send(schema, 404,
                              [message |-> Str("Item " \o id.val \o " not found")])>>
                  ELSE <<send(schema, 200,
                              [message |-> Str("Item " \o id.val \o " has been removed")])>>]

\* updateItem that reads the name with const { name } = req.body || {}
updateItem_defaultBody(schema, arr, r) ==
    LET id == r.params.id
        name == IF r.body = Undefined THEN Undefined ELSE GetProp(r.body, "name")
        res == update(arr, id, name)
        updated == res.ret
    IN  [items |-> res.items,
         call |-> Called("update", [id |-> id, name |-> name], res),
         sent |-> IF Falsy(updated)
                  THEN <<send(schema, 404,
                              [message |-> Str("Item " \o id.val \o " not found")])>>
                  ELSE <<send(schema, 200, updated)>>]

updateItem(schema, arr, r) ==
    LET id == r.params.id
    IN  IF r.body = Undefined
        THEN threw(arr)
        ELSE LET name == GetProp(r.body, "name")
                 res == update(arr, id, name)
                 updated == res.ret
             IN  [items |-> res.items,
                  call |-> Called("update", [id |-> id, name |-> name], res),
                  sent |-> IF Falsy(updated)
                           THEN <<send(schema, 404,
                                       [message |-> Str("Item " \o id.val \o " not found")])>>
                           ELSE <<send(schema, 200, updated)>>]

(***************************************************************************)
(* itemsHandler.js: the five routes.  An action is one request to a route. *)
(***************************************************************************)
Request(method, url, params, body) ==
    [method |-> method, url |-> url, params |-> params, body |-> body]

NoParams == [k \in {} |-> Undefined]

\* the request as the handler sees it
Validated(schema, r) == [r EXCEPT !.body = coerceBody(schema, r.body)]

\* a body that fails the schema is answered 400 and the handler never runs
Reject(r) ==
    /\ req' = r
    /\ call' = NoCall
    /\ sent' = <<BadRequest>>
    /\ UNCHANGED <<items, minted, inflight, boot>>

\* the handler ran with outcome out
Handled(r, out) ==
    /\ req' = r
    /\ items' = out.items
    /\ call' = out.call
    /\ sent' = out.sent
    /\ UNCHANGED <<inflight, boot>>

\* the routes in the order itemRoutes registers them
ItemRoutes ==
    << "GET /items", "GET /items/:id", "POST /items",
       "DELETE /items/:id", "PUT /items/:id" >>

\* the process once buildApp has returned and the server listens
Listening ==
    [pc |-> "listening", plugins |-> <<"swagger", "itemRoutes">>,
     routes |-> ItemRoutes, logged |-> <<>>, exit |-> Null]

Slots == 1..MaxInflight
Idle == [pc |-> "idle"]

\* a listening server that has handled no request yet
Init ==
    /\ items = SeedItems
    /\ minted = {}
    /\ req = Request("NONE", "", NoParams, Undefined)
    /\ call = NoCall
    /\ sent = <<>>
    /\ inflight = [k \in Slots |-> Idle]
    /\ boot = Listening

\* GET /items
GetItems ==
    LET r == Request("GET", "/items", NoParams, Undefined)
    IN  /\ Handled(r, getItems(getItemsSchema, items, Validated(getItemsSchema, r)))
        /\ UNCHANGED minted

\* GET /items/:id
GetItem ==
    \E id \in PathIds :
        LET r == Request("GET", "/items/:id", [id |-> id], Undefined)
        IN  /\ Handled(r, getItem(getItemSchema, items, Validated(getItemSchema, r)))
            /\ UNCHANGED minted

\* an id made once, when the module is loaded, and given to every item
uuidv4_once(used) == Uuid(1)

\* uuidv4() returns a random id that, for all practical purposes, was never
\* returned before.  The code never looks into an id, so which unused id it
\* is makes no difference: the model hands out the pool's ids in order (any
\* other choice is the same behaviour with the ids renamed).
uuidv4(used) == Uuid(Cardinality(used) + 1)

\* POST /items
PostItem ==
    \E body \in Bodies :
        LET r == Request("POST", "/items", NoParams, body)
        IN  IF validBody(addItemSchema, body)
            THEN /\ Cardinality(minted) < MaxUuids
                 /\ LET uuid == uuidv4(minted)
                        out == addItem(addItemSchema, items,
                                       Validated(addItemSchema, r), uuid)
                    IN  /\ Handled(r, out)
                        /\ minted' = IF out.call.fn = "add"
                                     THEN minted \cup {uuid}
                                     ELSE minted
            ELSE Reject(r)

\* DELETE /items/:id
DeleteItem ==
    \E id \in PathIds :
        LET r == Request("DELETE", "/items/:id", [id |-> id], Undefined)
        IN  IF validBody(deleteItemSchema, r.body)
            THEN /\ Handled(r, deleteItem(deleteItemSchema, items,
                                          Validated(deleteItemSchema, r)))
                 /\ UNCHANGED minted
            ELSE Reject(r)

\* PUT /items/:id
PutItem ==
    \E id \in PathIds, body \in Bodies :
        LET r == Request("PUT", "/items/:id", [id |-> id], body)
        IN  IF validBody(updateItemSchema, body)
            THEN /\ Handled(r, updateItem(updateItemSchema, items,
                                          Validated(updateItemSchema, r)))
                 /\ UNCHANGED minted
            ELSE Reject(r)

Next == GetItems \/ GetItem \/ PostItem \/ DeleteItem \/ PutItem

Spec == Init /\ [][Next]_vars

(***************************************************************************)
(* Properties                                                              *)
(***************************************************************************)
Has(arr, id) == \E i \in 1..Len(arr) : arr[i].id = id
IndexOf(arr, id) == CHOOSE i \in 1..Len(arr) : arr[i].id = id
NoName(body) == body = Undefined \/ "name" \notin DOMAIN body.props

\* C1: in every reachable state no two items of the Store have the same id.
C1_UniqueIds ==
    \A i, j \in 1..Len(items) : i # j => items[i].id # items[j].id

\* two created items are in the Store, a seed item was removed, and an
\* update has just changed an item
C1_Witness ==
    /\ Len(items) >= 4
    /\ \E id \in SeedIds : ~Has(items, id)
    /\ call.fn = "update"
    /\ call.ret # Null

\* C2: add returns an item whose id is the id of no item that was in the
\* Store before the call, and the Store has exactly one more item after it.
C2_CreateFresh ==
    [][call'.fn = "add" =>
          /\ ~Has(items, call'.ret.id)
          /\ Len(items') = Len(items) + 1]_vars

\* a second item has just been created next to an earlier created one
C2_Witness ==
    /\ call.fn = "add"
    /\ Len(items) >= 2
    /\ items[Len(items)] = call.ret
    /\ \E i \in 1..(Len(items) - 1) : items[i].id \in UUIDs

\* C3: a POST /items whose body has no name is answered 400, add is not
\* called and the Store is unchanged.
C3_PostWithoutName ==
    [][(req'.method = "POST" /\ NoName(req'.body)) =>
          /\ Len(sent') = 1
          /\ sent'[1].code = 400
          /\ call'.fn = "none"
          /\ items' = items]_vars

\* POST /items with body {} has just been answered 400
C3_Witness ==
    /\ req.method = "POST"
    /\ req.body = EmptyObj
    /\ sent[1].code = 400

\* C4: a PUT /items/:id whose body has no name is answered 400 before update
\* is called, so the Store is unchanged.
C4_PutWithoutName ==
    [][(req'.method = "PUT" /\ NoName(req'.body)) =>
          /\ Len(sent') = 1
          /\ sent'[1].code = 400
          /\ call'.fn = "none"
          /\ items' = items]_vars

\* C5: in every reachable state every item of the Store has a name that is
\* present and is a string.
C5_NameIsString ==
    \A i \in 1..Len(items) : items[i].name.type = "string"

\* C6: update on an id in the Store changes only the name of that item: same
\* length, same id at the same position, every other item as before, and the
\* record returned is {id, name: newName}.
C6_UpdateFound ==
    [][(call'.fn = "update" /\ Has(items, call'.args.id)) =>
          LET id == call'.args.id
              newName == call'.args.name
              index == IndexOf(items, id)
          IN  /\ Len(items') = Len(items)
              /\ items'[index] = [id |-> id, name |-> newName]
              /\ \A j \in 1..Len(items) : j # index => items'[j] = items[j]
              /\ call'.ret = [id |-> id, name |-> newName]]_vars

\* the second of three items has just been updated
C6_Witness ==
    /\ call.fn = "update"
    /\ call.args.id = Str("2")
    /\ call.args.name = Str("Jerome")
    /\ Len(items) >= 3
    /\ items[2] = call.ret

\* C7: update on an id that is not in the Store returns null and leaves the
\* Store unchanged, and the route answers 404 {message: "Item {id} not found"}.
C7_UpdateMissing ==
    [][(call'.fn = "update" /\ ~Has(items, call'.args.id)) =>
          /\ call'.ret = Null
          /\ items' = items
          /\ sent' = << [code |-> 404,
                         body |-> [message |->
                            Str("Item " \o call'.args.id.val \o " not found")]] >>]_vars

\* a PUT for the id of a removed seed item has just been answered 404
C7_Witness ==
    /\ call.fn = "update"
    /\ call.args.id \in SeedIds
    /\ call.ret = Null
    /\ sent[1].code = 404

\* C8: remove on an id in the Store returns the removed record; afterwards
\* findId(id) is absent, the Store has one item less, and the other items are
\* as before and in the same order.
C8_RemoveFound ==
    [][(call'.fn = "remove" /\ Has(items, call'.args.id)) =>
          LET id == call'.args.id
              index == IndexOf(items, id)
          IN  /\ call'.ret = items[index]
              /\ findId(items', id).ret = Undefined
              /\ ~Has(items', id)
              /\ Len(items') = Len(items) - 1
              /\ \A j \in 1..Len(items') :
                     items'[j] = IF j < index THEN items[j] ELSE items[j + 1]]_vars

\* item "2" has just been removed from between items "1" and "3"
C8_Witness ==
    /\ call.fn = "remove"
    /\ call.ret # Null
    /\ call.ret.id = Str("2")
    /\ Len(items) >= 2
    /\ items[1].id = Str("1")
    /\ items[2].id = Str("3")

\* C9: remove on an id that is not in the Store returns null and changes
\* nothing; in particular the second of two removes of the same id in a row.
C9_RemoveTwice ==
    [][call'.fn = "remove" =>
          /\ ~Has(items, call'.args.id) =>
                 (call'.ret = Null /\ items' = items)
          /\ (call.fn = "remove" /\ call.args = call'.args) =>
                 (call'.ret = Null /\ items' = items)]_vars

\* remove has just returned null for the id of a seed item removed earlier
C9_Witness ==
    /\ call.fn = "remove"
    /\ call.args.id \in SeedIds
    /\ call.ret = Null
    /\ Len(items) < 3

\* C10: findId on the id of the item add has just returned gives that item.
C10_FindAfterCreate ==
    [][call'.fn = "add" =>
          findId(items', call'.ret.id).ret = call'.ret]_vars

\* an item has just been created in a Store emptied by removes
C10_Witness ==
    /\ call.fn = "add"
    /\ items = <<call.ret>>
    /\ call.ret.name = Str("Jerome")

\* C11: an id that ever belonged to an item (a seed id or an id handed out by
\* uuidv4()) is never given to another item, also after its item was removed,
\* and no step changes the id of an item that stays in the Store.
C11_IdNeverReused ==
    [][/\ \A i \in 1..Len(items') :
              ~Has(items, items'[i].id) => items'[i].id \notin (SeedIds \cup minted)
       /\ Len(items') >= Len(items) =>
              \A i \in 1..Len(items) : items'[i].id = items[i].id]_vars

\* an item has just been created after a seed item and an earlier created
\* item were removed
C11_Witness ==
    /\ call.fn = "add"
    /\ \E s \in SeedIds : ~Has(items, s)
    /\ \E u \in minted : u # call.ret.id /\ ~Has(items, u)

\* C12: add puts the new item last; the items that were in the Store are
\* unchanged and in the same order.
C12_CreateAppends ==
    [][call'.fn = "add" =>
          /\ Len(items') = Len(items) + 1
          /\ items'[Len(items')] = call'.ret
          /\ SubSeq(items', 1, Len(items)) = items]_vars

\* an item has just been created behind the three seed items
C12_Witness ==
    /\ call.fn = "add"
    /\ Len(items) = 4
    /\ items[4] = call.ret
    /\ \A i \in 1..3 : items[i].id \in SeedIds

\* an item as JSON: the properties that are not undefined
JsonOf(item) ==
    [k \in {p \in {"id", "name"} : item[p] # Undefined} |-> item[k]]
NotFoundMessage(id) == [message |-> Str("Item " \o id.val \o " not found")]

\* C13: GET /items is always answered 200 with all items of the Store in the
\* Store's order, also when the Store is empty; and the Store's order is
\* insertion order: in every step the surviving items keep their relative
\* order and a new item comes after all of them.
C13_ListAll ==
    [][/\ (req'.method = "GET" /\ req'.url = "/items") =>
              /\ items' = items
              /\ sent' = << [code |-> 200,
                             body |-> [i \in 1..Len(items) |-> JsonOf(items[i])]] >>
       /\ \A i, j \in 1..Len(items') :
              (i < j /\ Has(items, items'[j].id)) =>
                  /\ Has(items, items'[i].id)
                  /\ IndexOf(items, items'[i].id) < IndexOf(items, items'[j].id)]_vars

\* GET /items has just listed a created item behind the seed items left
\* after a remove
C13_Witness ==
    /\ req.method = "GET"
    /\ req.url = "/items"
    /\ ~Has(items, Str("1"))
    /\ Len(items) >= 2
    /\ items[Len(items)].id \in UUIDs
    /\ Len(sent[1].body) = Len(items)

\* C14: GET /items/:id is answered 200 with the item when an item with that
\* id is in the Store, and 404 {message: "Item {id} not found"} otherwise.
C14_GetById ==
    [][(req'.method = "GET" /\ req'.url = "/items/:id") =>
          LET id == req'.params.id
          IN  IF Has(items, id)
              THEN sent' = << [code |-> 200,
                               body |-> JsonOf(items[IndexOf(items, id)])] >>
              ELSE sent' = << [code |-> 404, body |-> NotFoundMessage(id)] >>]_vars

\* GET /items/:id has just answered 200 with a created item
C14_Witness ==
    /\ req.method = "GET"
    /\ req.url = "/items/:id"
    /\ req.params.id \in UUIDs
    /\ sent[1].code = 200
    /\ sent[1].body.id = req.params.id

\* C15: DELETE /items/:id is answered 200 {message: "Item {id} has been
\* removed"} when an item with that id was in the Store before the call, and
\* the id is then no longer in the Store; otherwise it is answered 404
\* {message: "Item {id} not found"}.
C15_Delete ==
    [][req'.method = "DELETE" =>
          LET id == req'.params.id
          IN  IF Has(items, id)
              THEN /\ sent' = << [code |-> 200,
                                  body |-> [message |->
                                     Str("Item " \o id.val \o " has been removed")]] >>
                   /\ ~Has(items', id)
              ELSE sent' = << [code |-> 404, body |-> NotFoundMessage(id)] >>]_vars

\* DELETE has just removed a created item and answered 200
C15_Witness ==
    /\ req.method = "DELETE"
    /\ req.params.id \in UUIDs
    /\ sent[1].code = 200
    /\ ~Has(items, req.params.id)

\* C16: a POST /items with a body {name: <string>} is answered 201 with
\* {id, name}, name being the name of the body, and that item is in the Store
\* afterwards.
C16_PostCreates ==
    [][(/\ req'.method = "POST"
        /\ ~NoName(req'.body)
        /\ req'.body.props["name"].type = "string") =>
          /\ Len(sent') = 1
          /\ sent'[1].code = 201
          /\ DOMAIN sent'[1].body = {"id", "name"}
          /\ sent'[1].body.name = req'.body.props["name"]
          /\ \E i \in 1..Len(items') :
                 items'[i] = [id |-> sent'[1].body.id, name |-> sent'[1].body.name]
          /\ ~Has(items, sent'[1].body.id)]_vars

\* POST /items {name: "Jerome"} has just been answered 201 for the second time
C16_Witness ==
    /\ req.method = "POST"
    /\ req.body = NameObj(Str("Jerome"))
    /\ sent[1].code = 201
    /\ Cardinality(minted) = 2
    /\ Len(items) = 5

HasStringName(body) == ~NoName(body) /\ body.props["name"].type = "string"

\* C17: a PUT /items/:id with body {name: "X"} for an id in the Store is
\* answered 200 with {id, name: "X"}, and a GET /items/:id for the same id
\* that follows it is answered 200 with the same {id, name: "X"}.
C17_PutThenGet ==
    [][/\ (/\ req'.method = "PUT"
           /\ HasStringName(req'.body)
           /\ Has(items, req'.params.id)) =>
              sent' = << [code |-> 200,
                          body |-> [id |-> req'.params.id,
                                    name |-> req'.body.props["name"]]] >>
       /\ (/\ req.method = "PUT"
           /\ HasStringName(req.body)
           /\ sent[1].code = 200
           /\ req'.method = "GET"
           /\ req'.url = "/items/:id"
           /\ req'.params = req.params) =>
              sent' = << [code |-> 200,
                          body |-> [id |-> req.params.id,
                                    name |-> req.body.props["name"]]] >>]_vars

\* GET /items/2 has just answered with the name a PUT gave item "2"
C17_Witness ==
    /\ req.method = "GET"
    /\ req.url = "/items/:id"
    /\ req.params.id = Str("2")
    /\ sent = << [code |-> 200, body |-> [id |-> Str("2"), name |-> Str("Jerome")]] >>

\* C18: every item sent in a success response (the 200 body of GET /items/:id
\* and of PUT /items/:id, each element of the 200 body of GET /items, the 201
\* body of POST /items) has both an id and a name.
C18_SentItemsComplete ==
    (Len(sent) > 0 /\ sent[1].code \in {200, 201}) =>
        /\ (req.method = "GET" /\ req.url = "/items") =>
               \A i \in 1..Len(sent[1].body) :
                   {"id", "name"} \subseteq DOMAIN sent[1].body[i]
        /\ (\/ req.method = "GET" /\ req.url = "/items/:id"
            \/ req.method = "PUT"
            \/ req.method = "POST") =>
               {"id", "name"} \subseteq DOMAIN sent[1].body

\* C19: findId, update and remove report an id that is not in the Store by
\* returning undefined or null, which the caller tells apart from an item
\* (an item is returned exactly when the id is in the Store); the request is
\* answered 404, so nothing was thrown.
C19_AbsentNotThrown ==
    [][call'.fn \in {"findId", "update", "remove"} =>
          IF Has(items, call'.args.id)
          THEN /\ ~Falsy(call'.ret)
               /\ call'.ret.id = call'.args.id
          ELSE /\ call'.ret = (IF call'.fn = "findId" THEN Undefined ELSE Null)
               /\ Falsy(call'.ret)
               /\ items' = items
               /\ Len(sent') = 1
               /\ sent'[1].code = 404]_vars

\* findId has just returned undefined for the id of a created item that was
\* removed
C19_Witness ==
    /\ call.fn = "findId"
    /\ call.args.id \in minted
    /\ call.ret = Undefined

\* C20: every request to one of the five routes, with any path id and any
\* body, ends in exactly one response whose status is 200, 201, 400 or 404.
C20_NoServerError ==
    req.method # "NONE" =>
        /\ Len(sent) = 1
        /\ sent[1].code \in {200, 201, 400, 404}


(***************************************************************************)
(* Several requests in flight.  Node runs one callback at a time and a     *)
(* callback gives way only at an await: the controllers are async          *)
(* functions without an await and the services are plain functions, so a   *)
(* handler, once started, runs to its reply in one step.                   *)
(***************************************************************************)
ConcIds == {Str("1"), Str("2"), Uuid(1)}

ConcRequests ==
    {Request("GET", "/items", NoParams, Undefined)}
        \cup {Request("GET", "/items/:id", [id |-> id], Undefined) : id \in ConcIds}
        \cup {Request("POST", "/items", NoParams, body) : body \in Bodies}
        \cup {Request("DELETE", "/items/:id", [id |-> id], Undefined) : id \in ConcIds}
        \cup {Request("PUT", "/items/:id", [id |-> id], body) :
                  id \in ConcIds, body \in Bodies}

\* the schema of the route a request goes to
schemaOf(r) ==
    CASE r.method = "GET" /\ r.url = "/items" -> getItemsSchema
      [] r.method = "GET" /\ r.url = "/items/:id" -> getItemSchema
      [] r.method = "POST" -> addItemSchema
      [] r.method = "DELETE" -> deleteItemSchema
      [] r.method = "PUT" -> updateItemSchema

\* one request handled from the array arr when uuidv4 has returned the ids
\* in used: validation, then the route's handler
handle(r, arr, used) ==
    LET schema == schemaOf(r)
        v == Validated(schema, r)
    IN  IF ~validBody(schema, r.body)
        THEN [items |-> arr, sent |-> <<BadRequest>>, minted |-> used]
        ELSE LET out ==
                     CASE r.method = "GET" /\ r.url = "/items" -> getItems(schema, arr, v)
                       [] r.method = "GET" /\ r.url = "/items/:id" -> getItem(schema, arr, v)
                       [] r.method = "POST" -> addItem(schema, arr, v, uuidv4(used))
                       [] r.method = "DELETE" -> deleteItem(schema, arr, v)
                       [] r.method = "PUT" -> updateItem(schema, arr, v)
             IN  [items |-> out.items, sent |-> out.sent,
                  minted |-> IF out.call.fn = "add"
                             THEN used \cup {uuidv4(used)}
                             ELSE used]

\* a request is received while others may still wait for their handler
Arrive(k) ==
    /\ inflight[k] = Idle
    /\ k > 1 => inflight[k - 1] # Idle
    /\ \E r \in ConcRequests :
           inflight' = [inflight EXCEPT ![k] = [pc |-> "pending", req |-> r]]
    /\ UNCHANGED <<items, minted, req, call, sent, boot>>

\* a handler whose update awaits between findIndex and the assignment: other
\* handlers run in between and the index is used as it was found
Run_split(k) ==
    LET r == inflight[k].req
    IN  /\ UNCHANGED <<req, call, sent, boot>>
        /\ \/ /\ inflight[k].pc = "pending"
              /\ r.method = "PUT" /\ r.body # Undefined
              /\ inflight' = [inflight EXCEPT ![k] =
                                 [pc |-> "mid", req |-> r,
                                  index |-> findIndex(items, r.params.id)]]
              /\ UNCHANGED <<items, minted>>
           \/ /\ inflight[k].pc = "mid"
              /\ LET index == inflight[k].index
                     name == GetProp(r.body, "name")
                     arr == IF index \in 1..Len(items)
                            THEN [items EXCEPT ![index].name = name]
                            ELSE items
                     reply == IF index = -1
                              THEN send(updateItemSchema, 404,
                                        [message |-> Str("Item " \o r.params.id.val
                                                              \o " not found")])
                              ELSE IF index > Len(items)
                                   THEN ServerError
                                   ELSE send(updateItemSchema, 200, arr[index])
                 IN  /\ items' = arr
                     /\ inflight' = [inflight EXCEPT ![k] =
                                        [pc |-> "done", req |-> r, sent |-> <<reply>>]]
                     /\ UNCHANGED minted
           \/ /\ inflight[k].pc = "pending"
              /\ ~(r.method = "PUT" /\ r.body # Undefined)
              /\ r.method = "POST" /\ validBody(addItemSchema, r.body)
                     => Cardinality(minted) < MaxUuids
              /\ LET out == handle(r, items, minted)
                 IN  /\ items' = out.items
                     /\ minted' = out.minted
                     /\ inflight' = [inflight EXCEPT ![k] =
                                        [pc |-> "done", req |-> r, sent |-> out.sent]]

\* the event loop runs the handler of a waiting request, from validation to
\* the reply, before it runs anything else
Run(k) ==
    LET r == inflight[k].req
    IN  /\ inflight[k].pc = "pending"
        /\ r.method = "POST" /\ validBody(addItemSchema, r.body)
               => Cardinality(minted) < MaxUuids
        /\ LET out == handle(r, items, minted)
           IN  /\ items' = out.items
               /\ minted' = out.minted
               /\ inflight' = [inflight EXCEPT ![k] =
                                  [pc |-> "done", req |-> r, sent |-> out.sent]]
        /\ UNCHANGED <<req, call, sent, boot>>

NextConc == \E k \in Slots : Arrive(k) \/ Run(k)

SpecConc == Init /\ [][NextConc]_vars

Done == {k \in Slots : inflight[k].pc = "done"}

\* the orders in which the requests of the slots S can be taken one by one
Orders(S) ==
    {o \in [1..Cardinality(S) -> S] :
        \A i, j \in 1..Cardinality(S) : i # j => o[i] # o[j]}

\* handling the requests of order one after the other, from arr, gives each
\* the reply it got and ends with the Store as it is
RECURSIVE serial(_, _, _)
serial(order, arr, used) ==
    IF order = <<>>
    THEN arr = items /\ used = minted
    ELSE LET k == Head(order)
             out == handle(inflight[k].req, arr, used)
         IN  /\ out.sent = inflight[k].sent
             /\ serial(Tail(order), out.items, out.minted)

\* C21: with several requests in flight, the Store and the reply of every
\* handled request are those of handling the handled requests one after
\* the other in some order, from the seeded Store.
C21_Serializable == \E o \in Orders(Done) : serial(o, SeedItems, {})

\* the second request to arrive was handled first, both changed the Store
\* and the order shows in the replies: PUT of the created item answered 200
C21_Witness ==
    /\ {1, 2} \subseteq Done
    /\ inflight[1].req.method = "PUT"
    /\ inflight[1].req.params.id = Uuid(1)
    /\ inflight[1].sent[1].code = 200
    /\ inflight[2].req.method = "POST"
    /\ inflight[2].sent[1].code = 201

Created ==
    {k \in Done : inflight[k].req.method = "POST" /\ inflight[k].sent[1].code = 201}

OnlyPosts ==
    \A k \in Slots :
        \/ inflight[k] = Idle
        \/ inflight[k].pc = "done" /\ inflight[k].req.method = "POST"

\* C22: POST /items requests in flight together are answered with ids that
\* differ from one another, and once all of them are handled each created
\* item is in the Store exactly once.
C22_ConcurrentCreates ==
    /\ \A j, k \in Created :
           j # k => inflight[j].sent[1].body.id # inflight[k].sent[1].body.id
    /\ OnlyPosts =>
           \A k \in Created :
               Cardinality({i \in 1..Len(items) :
                               items[i].id = inflight[k].sent[1].body.id}) = 1

\* two POST /items were in flight together, the later one was handled first,
\* and both are answered 201
C22_Witness ==
    /\ OnlyPosts
    /\ {1, 2} \subseteq Created
    /\ inflight[2].sent[1].body.id = Uuid(1)
    /\ inflight[1].sent[1].body.id = Uuid(2)

(***************************************************************************)
(* Requests whose body has a name, the empty string among the names.       *)
(***************************************************************************)
NameBodies == {NameObj(Str("")), NameObj(Str("Jerome"))}

\* POST /items with a name
PostNamed ==
    \E body \in NameBodies :
        LET r == Request("POST", "/items", NoParams, body)
        IN  IF validBody(addItemSchema, body)
            THEN /\ Cardinality(minted) < MaxUuids
                 /\ LET uuid == uuidv4(minted)
                        out == addItem(addItemSchema, items,
                                       Validated(addItemSchema, r), uuid)
                    IN  /\ Handled(r, out)
                        /\ minted' = IF out.call.fn = "add"
                                     THEN minted \cup {uuid}
                                     ELSE minted
            ELSE Reject(r)

\* PUT /items/:id with a name
PutNamed ==
    \E id \in PathIds, body \in NameBodies :
        LET r == Request("PUT", "/items/:id", [id |-> id], body)
        IN  IF validBody(updateItemSchema, body)
            THEN /\ Handled(r, updateItem(updateItemSchema, items,
                                          Validated(updateItemSchema, r)))
                 /\ UNCHANGED minted
            ELSE Reject(r)

NextNames == PostNamed \/ PutNamed

SpecNames == Init /\ [][NextNames]_vars

\* C23 as stated: in every reachable state the name of every item of the
\* Store is a non-empty string.
C23_NameNonEmpty ==
    \A i \in 1..Len(items) : items[i].name.type = "string" /\ items[i].name.val # ""

\* C23: the empty string is a name like any other: POST /items with name ""
\* is answered 201 and appends an item whose name is "", and PUT /items/:id
\* with name "" for an id in the Store is answered 200 and sets that item's
\* name to "".
C23_EmptyNameStored ==
    [][/\ (req'.method = "POST" /\ req'.body = NameObj(Str(""))) =>
              /\ sent'[1].code = 201
              /\ Len(items') = Len(items) + 1
              /\ items'[Len(items')].name = Str("")
       /\ (/\ req'.method = "PUT"
           /\ req'.body = NameObj(Str(""))
           /\ Has(items, req'.params.id)) =>
              /\ sent'[1].code = 200
              /\ sent'[1].body.name = Str("")
              /\ items'[IndexOf(items, req'.params.id)].name = Str("")]_vars

\* an item was created with the name "" and a seed item has just been
\* renamed to ""
C23_Witness ==
    /\ req.method = "PUT"
    /\ req.params.id = Str("1")
    /\ sent[1].code = 200
    /\ items[1].name = Str("")
    /\ Len(items) = 4
    /\ items[4].name = Str("")

\* C24: a step that changes the Store is a step in which add, update or
\* remove was called, and the change is exactly what that call does to the
\* Store; the controllers and the routes change nothing by themselves.
C24_OnlyServicesMutate ==
    [][items' # items =>
          \/ /\ call'.fn = "add"
             /\ items' = add(items, call'.ret.id, call'.args.name).items
          \/ /\ call'.fn = "update"
             /\ items' = update(items, call'.args.id, call'.args.name).items
          \/ /\ call'.fn = "remove"
             /\ items' = remove(items, call'.args.id).items]_vars

\* remove has just taken a second item out of the Store
C24_Witness ==
    /\ call.fn = "remove"
    /\ call.ret # Null
    /\ Len(items) = 1
    /\ minted = {}

(***************************************************************************)
(* app.js and server.js: the start of the process.  boot.pc is the place   *)
(* the module code of server.js has come to, boot.plugins and boot.routes  *)
(* what is registered, boot.logged what fastify.log.error was called with  *)
(* and boot.exit the exit code once the process has ended.                 *)
(***************************************************************************)
Booting ==
    [pc |-> "start", plugins |-> <<>>, routes |-> <<>>, logged |-> <<>>,
     exit |-> Null]

InitStart ==
    /\ items = SeedItems
    /\ minted = {}
    /\ req = Request("NONE", "", NoParams, Undefined)
    /\ call = NoCall
    /\ sent = <<>>
    /\ inflight = [k \in Slots |-> Idle]
    /\ boot = Booting

Boot(b) ==
    /\ boot' = b
    /\ UNCHANGED <<items, minted, req, call, sent, inflight>>

\* buildApp: Fastify({ logger: true })
CreateApp ==
    /\ boot.pc = "start"
    /\ Boot([boot EXCEPT !.pc = "created"])

\* buildApp: await fastify.register(swagger, ...)
RegisterSwagger ==
    /\ boot.pc = "created"
    /\ Boot([boot EXCEPT !.pc = "swagger",
                         !.plugins = Append(@, "swagger")])

\* buildApp: await fastify.register(itemRoutes); itemRoutes adds its routes
\* one after the other without an await
RegisterRoutes ==
    /\ boot.pc = "swagger"
    /\ Boot([boot EXCEPT !.pc = "routes",
                         !.plugins = Append(@, "itemRoutes"),
                         !.routes = ItemRoutes])

\* buildApp returns and the await of server.js is over
BuildAppReturns ==
    /\ boot.pc = "routes"
    /\ Boot([boot EXCEPT !.pc = "built"])

\* a server.js that does not wait for buildApp and its registrations
Start_noAwait ==
    /\ boot.pc \in {"created", "swagger", "routes", "built"}
    /\ Boot([boot EXCEPT !.pc = "listenCalled"])

\* start(): fastify.listen(fastifyOpts) returns a promise, which is not
\* awaited; the try block and start() are over
Start ==
    /\ boot.pc = "built"
    /\ Boot([boot EXCEPT !.pc = "listenCalled"])

\* start(): the call of listen itself throws; the catch block logs the error
\* and ends the process
ListenThrows ==
    /\ boot.pc = "built"
    /\ Boot([boot EXCEPT !.pc = "exited",
                         !.logged = Append(@, "error"),
                         !.exit = 1])

\* the promise of listen is fulfilled: the server accepts requests
ListenResolves ==
    /\ boot.pc = "listenCalled"
    /\ Boot([boot EXCEPT !.pc = "listening"])

\* the promise of listen is rejected (port in use, permission denied) after
\* start() has returned: no handler is attached to it.  What Node does with
\* an unhandled rejection depends on its version and flags: it ends the
\* process with code 1, or warns and lets it end with code 0.
ListenRejects ==
    /\ boot.pc = "listenCalled"
    /\ \E code \in {0, 1} :
           Boot([boot EXCEPT !.pc = "unhandledRejection", !.exit = code])

\* a listening server handles a request
Serve == boot.pc = "listening" /\ Next

NextStart ==
    \/ CreateApp
    \/ RegisterSwagger
    \/ RegisterRoutes
    \/ BuildAppReturns
    \/ Start
    \/ ListenThrows
    \/ ListenResolves
    \/ ListenRejects
    \/ Serve

SpecStart == InitStart /\ [][NextStart]_vars

\* C25: a failure of listen ends in the catch block of start(): the error
\* is logged with fastify.log.error and the process exits with code 1; it
\* never ends as an unhandled rejection.
C25_ListenFailureCaught ==
    boot.pc \in {"exited", "unhandledRejection"} =>
        /\ boot.pc = "exited"
        /\ boot.logged = <<"error">>
        /\ boot.exit = 1

Created201 == req'.method = "POST" /\ sent'[1].code = 201
Deleted200 == req'.method = "DELETE" /\ sent'[1].code = 200

\* C27: request by request the size of the Store grows by one with a 201
\* to POST /items, shrinks by one with a 200 to DELETE /items/:id and stays
\* as it is with every other answer; so after any sequence of requests it is
\* the initial size plus the number of such 201 minus the number of such 200.
C27_SizeAccounting ==
    [][Len(items') = Len(items) + (IF Created201 THEN 1 ELSE 0)
                                - (IF Deleted200 THEN 1 ELSE 0)]_vars

\* two items were created and three removed: 3 + 2 - 3 items are left, and
\* the last request was a DELETE answered 200
C27_Witness ==
    /\ Cardinality(minted) = 2
    /\ Len(items) = 2
    /\ req.method = "DELETE"
    /\ sent[1].code = 200

\* C28: a GET /items or GET /items/:id request leaves the Store as it was.
C28_GetReadOnly == [][req'.method = "GET" => items' = items]_vars

\* the second created item has just been read by its id
C28_Witness ==
    /\ req.method = "GET"
    /\ req.url = "/items/:id"
    /\ req.params.id = Uuid(2)
    /\ sent[1].code = 200
    /\ call.ret = items[Len(items)]

ListenCalled == boot.pc \in {"listenCalled", "listening", "exited", "unhandledRejection"}

\* C30: listen is called only when buildApp is over: swagger is registered
\* before the item routes, the five routes are registered in the order of
\* itemRoutes, both registrations are done when listen is called, and no
\* request is handled before the server listens with all its routes.
C30_ListenAfterBuild ==
    /\ boot.routes # <<>> =>
           /\ boot.routes = ItemRoutes
           /\ Len(boot.plugins) = 2
           /\ boot.plugins[1] = "swagger"
           /\ boot.plugins[2] = "itemRoutes"
    /\ ListenCalled =>
           /\ boot.plugins = <<"swagger", "itemRoutes">>
           /\ boot.routes = ItemRoutes
    /\ req.method # "NONE" =>
           /\ boot.pc = "listening"
           /\ boot.routes = ItemRoutes

\* the process went through buildApp and start(), the server listens and
\* has just answered a PUT for a seed item
C30_Witness ==
    /\ boot.pc = "listening"
    /\ boot.plugins = <<"swagger", "itemRoutes">>
    /\ req.method = "PUT"
    /\ req.params.id = Str("3")
    /\ sent[1].code = 200
====
